---- MODULE Spec2Model ----
(***************************************************************************)
(* A model of the e-waste recycling simulation of src/agent.py: the model  *)
(* step of EWasteModel (stop check, regeneration, random activation of     *)
(* every agent, metrics, step counter), the three agent steps that move    *)
(* waste pool -> collector -> sorter -> recycler, and the random move on   *)
(* the bounded grid.                                                       *)
(*                                                                         *)
(* One call of EWasteModel.step() is a sequence of actions, cut where an   *)
(* agent is activated, so that the states between two activations of one   *)
(* model step are states of the model:                                     *)
(*   StepStop                       lines 126-136 (the call returns)       *)
(*   StepRun                        lines 126-143 up to the shuffle        *)
(*   CollectionAgentStep,                                                  *)
(*   SortingAgentStep,                                                     *)
(*   RecyclingAgentStep             one activation each, move included     *)
(*   StepFinish                     lines 144-149                          *)
(* An agent step whose random_move finds no neighbour raises IndexError    *)
(* (random.choice of an empty list); the exception leaves step() at once.  *)
(***************************************************************************)
EXTENDS Integers, Sequences, FiniteSets, TLC

(* ------------------------------ bounds --------------------------------- *)
\* The constructor's arguments: EWasteModel(width, height, num_collectors,
\* num_sorters, num_recyclers, max_steps).
\* <<width, height>>: the grid with one cell and the smallest grid with a neighbour.
Grids == {<<1, 1>>, <<2, 1>>}

\* <<num_collectors, num_sorters, num_recyclers>>
Fleets == {<<0, 0, 0>>, <<1, 0, 0>>, <<1, 1, 0>>, <<2, 1, 0>>, <<0, 1, 1>>, <<1, 1, 1>>}

\* max_steps is drawn from 0 .. MaxSteps
MaxSteps == 1

\* step() calls that take the stop branch: the one that stops the model and the
\* calls made on the stopped model.
MaxStopCalls == 2

\* step() calls that raise; step() can be called again after it raised.
MaxRaised == 2

\* The grids of SpecGrid, <<width, height>>: with a diagonal neighbour (2x2) and
\* with cells that are not neighbours (3x1), under the fleets MoveFleets.
MoveGrids == {<<2, 1>>, <<2, 2>>, <<3, 1>>}

MoveFleets == {<<1, 0, 0>>, <<0, 1, 1>>}

\* The runs of SpecFanIn, <<num_collectors, num_sorters, num_recyclers, max_steps>>:
\* two Collectors can leave more than 5 with one Sorter in one model step, and
\* two Sorters can both hold waste when the Recycler is activated; in a second
\* model step the counters are not all 0 when the step begins.
FanInRuns == {<<2, 2, 1, 1>>, <<1, 1, 1, 2>>}

\* The long runs, in which the pool of 100 can run low: max_steps = DrainSteps on
\* the grid with a neighbour, with two Collectors (the pool runs low) or with one
\* agent of each kind (it does not). While a step of a long run begins with more
\* than DrainThreshold in the pool, SpecDrain follows only the draws that empty
\* the pool fastest (FastRun .. FastRecycle); from DrainThreshold down, and in the
\* runs of Init, it follows every draw and every order.
DrainFleets == {<<2, 0, 0>>, <<1, 1, 1>>}

DrainSteps == 21

DrainThreshold == 10

(* ------------------------- program constants --------------------------- *)
\* self.total_waste = 100
InitialWaste == 100

\* the most one draw takes: random.randint(1, 5), min(..., 5)
MaxDraw == 5

\* a stock of at most this much is taken whole: "<= 5"
DrainLimit == 5

\* waste is regenerated while the pool holds more than this: "total_waste > 5"
RegenerationFloor == 5

\* random.randint(5, 10)
MinNewWaste == 5

MaxNewWaste == 10

VARIABLES
    width, height,          \* MultiGrid(width, height, torus=False)
    num_collectors, num_sorters, num_recyclers,
    max_steps, current_step,
    total_waste,
    running,                \* mesa.Model.running, True after construction
    collected_waste,        \* CollectionAgent.collected_waste, by unique_id
    sorted_waste,           \* SortingAgent.sorted_waste, by unique_id
    recycled_waste,         \* RecyclingAgent.recycled_waste, by unique_id
    pos,                    \* Agent.pos, by unique_id
    logger,                 \* len(self.logger): the log is append-only
    snapshots,              \* rows the DataCollector holds (it is append-only)
    lastSnapshot,           \* the row <<collected, sorted, recycled, remaining>> the last
                            \* step() call appended to it, << >> if it appended none
    queue,                  \* the agents the running schedule.step() has still to activate
    pc,                     \* "idle": no step() call is running; "schedule": inside schedule.step()
    regenerated,            \* history: the sum of all new_waste drawn so far
    calls,                  \* history: step() calls begun
    returned,               \* history: step() calls that returned (did not raise)
    startWaste              \* history: total_waste when the running model step began
                            \* (it is > 0), and 0 when no model step is running

vars == <<width, height, num_collectors, num_sorters, num_recyclers, max_steps,
          current_step, total_waste, running, collected_waste, sorted_waste,
          recycled_waste, pos, logger, snapshots, lastSnapshot, queue, pc,
          regenerated, calls, returned, startWaste>>

config == <<width, height, num_collectors, num_sorters, num_recyclers, max_steps>>

(* ------------------------------ helpers -------------------------------- *)
Min(a, b) == IF a <= b THEN a ELSE b

\* random.randint(lo, hi): any integer of lo..hi
RandInt(lo, hi) == lo .. hi

Range(s) == {s[i] : i \in DOMAIN s}

\* All orders of a finite set: what random.shuffle can leave.
Shuffles(S) == {s \in [1 .. Cardinality(S) -> S] : Range(s) = S}

RECURSIVE SumOver(_, _)
SumOver(f, S) ==
    IF S = {} THEN 0
    ELSE LET a == CHOOSE x \in S : TRUE
         IN f[a] + SumOver(f, S \ {a})

\* unique_id ranges of the three constructor loops
Collectors == 1 .. num_collectors

Sorters == (num_collectors + 1) .. (num_collectors + num_sorters)

Recyclers == (num_collectors + num_sorters + 1) .. (num_collectors + num_sorters + num_recyclers)

Agents == Collectors \cup Sorters \cup Recyclers

Cells == (0 .. (width - 1)) \X (0 .. (height - 1))

\* Mutant of get_neighborhood: the 8 cells around pos, the grid's bounds not
\* applied.
get_neighborhoodUnbounded(p) ==
    {c \in ((p[1] - 1) .. (p[1] + 1)) \X ((p[2] - 1) .. (p[2] + 1)) : c # p}

\* grid.get_neighborhood(pos, moore=True, include_center=False) on a grid with
\* torus=False: the in-bounds cells among the 8 around pos.
get_neighborhood(p) ==
    {c \in Cells : /\ c # p
                   /\ c[1] - p[1] \in {-1, 0, 1}
                   /\ c[2] - p[2] \in {-1, 0, 1}}

\* The four DataCollector reporters.
Metrics ==
    << SumOver(collected_waste, Collectors), SumOver(sorted_waste, Sorters),
       SumOver(recycled_waste, Recyclers), total_waste >>

\* Mutant of StopCondition: ">" for ">=".
StopConditionPastLimit == current_step > max_steps \/ total_waste <= 0

\* The test at the start of EWasteModel.step.
StopCondition == current_step >= max_steps \/ total_waste <= 0

\* Mutant of Regenerates: ">= 5" for "> 5".
RegeneratesAtFloor == total_waste >= RegenerationFloor

\* The test that guards the regeneration.
Regenerates == total_waste > RegenerationFloor

\* Mutant of NewWasteAmounts: randint(1, 10).
NewWasteAmountsFromOne == RandInt(1, MaxNewWaste)

\* new_waste = random.randint(5, 10)
NewWasteAmounts == RandInt(MinNewWaste, MaxNewWaste)

\* Mutant of Debit: the "-=" of the source of a transfer left out.
DebitNothing(n, amount) == n

\* Mutant of Debit: "= 0" for "-= amount", the source emptied whatever was taken.
DebitAll(n, amount) == 0

\* What a transfer leaves in its source: "self.model.total_waste -= collect",
\* "agent.collected_waste -= sorted_waste", "agent.sorted_waste -= recycled".
Debit(n, amount) == n - amount

\* Mutant of CollectAmount: the override of lines 19-20 left out.
CollectAmountNoOverride(r, w) == Min(r, w)

\* Mutant of CollectAmount: the draw itself, neither capped by the pool nor
\* replaced by it.
CollectAmountDrawOnly(r, w) == r

\* What a Collector takes from a pool of w > 0 when its draw is r:
\* min(r, w), replaced by w itself when w <= 5.
CollectAmount(r, w) == IF w <= DrainLimit THEN w ELSE Min(r, w)

\* Mutant of TransferAmounts: a plain randint(1, 5), neither capped by the stock
\* nor replaced by it.
TransferAmountsUnclamped(n) == RandInt(1, MaxDraw)

\* Mutant of TransferAmounts: the override of lines 41-42 left out.
TransferAmountsNoOverride(n) == RandInt(1, Min(n, MaxDraw))

\* The amounts one Sorter or Recycler transfer can take from a stock of n > 0:
\* randint(1, min(n, 5)), replaced by n itself when n <= 5.
TransferAmounts(n) ==
    {IF n <= DrainLimit THEN n ELSE r : r \in RandInt(1, Min(n, MaxDraw))}

(* ------------------------------- Init ---------------------------------- *)
\* EWasteModel.__init__, once its arguments are given.
Constructed ==
    /\ current_step = 0
    /\ total_waste = InitialWaste
    /\ running = TRUE
    /\ collected_waste = [a \in Collectors |-> 0]
    /\ sorted_waste = [a \in Sorters |-> 0]
    /\ recycled_waste = [a \in Recyclers |-> 0]
    /\ pos \in [Agents -> Cells]
    /\ logger = 0
    /\ snapshots = 0
    /\ lastSnapshot = << >>
    /\ queue = << >>
    /\ pc = "idle"
    /\ regenerated = 0
    /\ calls = 0
    /\ returned = 0
    /\ startWaste = 0

Init ==
    /\ \E g \in Grids : width = g[1] /\ height = g[2]
    /\ \E f \in Fleets :
          num_collectors = f[1] /\ num_sorters = f[2] /\ num_recyclers = f[3]
    /\ max_steps \in 0 .. MaxSteps
    /\ Constructed

InitDrain ==
    /\ width = 2 /\ height = 1
    /\ \E f \in DrainFleets :
          num_collectors = f[1] /\ num_sorters = f[2] /\ num_recyclers = f[3]
    /\ max_steps = DrainSteps
    /\ Constructed

(* --------------------------- EWasteModel.step -------------------------- *)
\* Mutant of StepStop: the stop branch also counts the step ("current_step += 1"
\* reached on the way out).
StepStopCounting ==
    /\ pc = "idle"
    /\ returned - current_step < MaxStopCalls
    /\ StopCondition
    /\ logger' = logger + 2 + (IF current_step >= max_steps THEN 1 ELSE 0)
                            + (IF total_waste <= 0 THEN 1 ELSE 0)
    /\ running' = FALSE
    /\ current_step' = current_step + 1
    /\ calls' = calls + 1
    /\ returned' = returned + 1
    /\ lastSnapshot' = << >>
    /\ UNCHANGED <<config, total_waste, collected_waste, sorted_waste,
                   recycled_waste, pos, snapshots, queue, pc, regenerated, startWaste>>

\* Lines 126-136: the two header records, then the stop branch.
StepStop ==
    /\ pc = "idle"
    /\ returned - current_step < MaxStopCalls
    /\ StopCondition
    /\ logger' = logger + 2 + (IF current_step >= max_steps THEN 1 ELSE 0)
                            + (IF total_waste <= 0 THEN 1 ELSE 0)
    /\ running' = FALSE
    /\ calls' = calls + 1
    /\ returned' = returned + 1
    /\ lastSnapshot' = << >>
    /\ UNCHANGED <<config, current_step, total_waste, collected_waste, sorted_waste,
                   recycled_waste, pos, snapshots, queue, pc, regenerated, startWaste>>

\* Lines 126-143: header, the test fails, regeneration, and schedule.step()
\* shuffles the agents.
StepRun ==
    /\ pc = "idle"
    /\ calls - returned < MaxRaised
    /\ ~StopCondition
    /\ \/ /\ Regenerates
          /\ \E new_waste \in NewWasteAmounts :
                /\ total_waste' = total_waste + new_waste
                /\ regenerated' = regenerated + new_waste
          /\ logger' = logger + 3
       \/ /\ ~Regenerates
          /\ logger' = logger + 2
          /\ UNCHANGED <<total_waste, regenerated>>
    /\ queue' \in Shuffles(Agents)
    /\ pc' = "schedule"
    /\ calls' = calls + 1
    /\ startWaste' = total_waste
    /\ lastSnapshot' = << >>
    /\ UNCHANGED <<config, current_step, running, collected_waste, sorted_waste,
                   recycled_waste, pos, snapshots, returned>>

\* Lines 144-149, once every agent has been activated.
StepFinish ==
    /\ pc = "schedule"
    /\ queue = << >>
    /\ snapshots' = snapshots + 1
    /\ lastSnapshot' = Metrics
    /\ logger' = logger + 2
    /\ current_step' = current_step + 1
    /\ pc' = "idle"
    /\ returned' = returned + 1
    /\ startWaste' = 0
    /\ UNCHANGED <<config, total_waste, running, collected_waste, sorted_waste,
                   recycled_waste, pos, queue, regenerated, calls>>

(* ------------------------------ agents --------------------------------- *)
\* random_move of the agent at the head of the queue (the same three lines in the
\* three classes). random.choice of an empty neighbourhood raises IndexError,
\* which ends the agent's step, schedule.step() and EWasteModel.step() at once:
\* no metrics, no current_step += 1.
random_move(a) ==
    LET possible_moves == get_neighborhood(pos[a])
    IN \/ /\ possible_moves # {}
          /\ \E new_position \in possible_moves :
                pos' = [pos EXCEPT ![a] = new_position]
          /\ queue' = Tail(queue)
          /\ UNCHANGED <<pc, startWaste>>
       \/ /\ possible_moves = {}
          /\ queue' = << >>
          /\ pc' = "idle"
          /\ startWaste' = 0
          /\ UNCHANGED pos

CollectionAgentStep ==
    /\ pc = "schedule"
    /\ queue # << >>
    /\ Head(queue) \in Collectors
    /\ LET self == Head(queue)
       IN /\ \/ /\ total_waste > 0
                /\ \E r \in RandInt(1, MaxDraw) :
                      LET collect == CollectAmount(r, total_waste)
                      IN /\ collected_waste' =
                                [collected_waste EXCEPT ![self] = @ + collect]
                         /\ total_waste' = Debit(total_waste, collect)
                /\ logger' = logger + 1
             \/ /\ ~(total_waste > 0)
                /\ UNCHANGED <<collected_waste, total_waste, logger>>
          /\ random_move(self)
    /\ UNCHANGED <<config, current_step, running, sorted_waste, recycled_waste,
                   snapshots, lastSnapshot, regenerated, calls, returned>>

\* What one Sorter or Recycler activation takes from each upstream agent: nothing
\* from an empty one ("> 0" fails), else one TransferAmounts draw.
Takes(stock, From) ==
    {t \in [From -> 0 .. MaxDraw] :
        \A a \in From : t[a] \in (IF stock[a] > 0 THEN TransferAmounts(stock[a]) ELSE {0})}

SortingAgentStep ==
    /\ pc = "schedule"
    /\ queue # << >>
    /\ Head(queue) \in Sorters
    /\ LET self == Head(queue)
       IN /\ \E taken \in Takes(collected_waste, Collectors) :
                /\ sorted_waste' =
                       [sorted_waste EXCEPT ![self] = @ + SumOver(taken, Collectors)]
                /\ collected_waste' =
                       [a \in Collectors |-> Debit(collected_waste[a], taken[a])]
          /\ logger' = logger + Cardinality({a \in Collectors : collected_waste[a] > 0})
          /\ random_move(self)
    /\ UNCHANGED <<config, current_step, total_waste, running, recycled_waste,
                   snapshots, lastSnapshot, regenerated, calls, returned>>

\* Mutant of RecyclingAgentStep: isinstance(agent, CollectionAgent) for
\* isinstance(agent, SortingAgent), the Recycler takes from the Collectors.
RecyclingAgentStepFromCollectors ==
    /\ pc = "schedule"
    /\ queue # << >>
    /\ Head(queue) \in Recyclers
    /\ LET self == Head(queue)
       IN /\ \E taken \in Takes(collected_waste, Collectors) :
                /\ recycled_waste' =
                       [recycled_waste EXCEPT ![self] = @ + SumOver(taken, Collectors)]
                /\ collected_waste' =
                       [a \in Collectors |-> Debit(collected_waste[a], taken[a])]
          /\ logger' = logger + Cardinality({a \in Collectors : collected_waste[a] > 0})
          /\ random_move(self)
    /\ UNCHANGED <<config, current_step, total_waste, running, sorted_waste,
                   snapshots, lastSnapshot, regenerated, calls, returned>>

RecyclingAgentStep ==
    /\ pc = "schedule"
    /\ queue # << >>
    /\ Head(queue) \in Recyclers
    /\ LET self == Head(queue)
       IN /\ \E taken \in Takes(sorted_waste, Sorters) :
                /\ recycled_waste' =
                       [recycled_waste EXCEPT ![self] = @ + SumOver(taken, Sorters)]
                /\ sorted_waste' =
                       [a \in Sorters |-> Debit(sorted_waste[a], taken[a])]
          /\ logger' = logger + Cardinality({a \in Sorters : sorted_waste[a] > 0})
          /\ random_move(self)
    /\ UNCHANGED <<config, current_step, total_waste, running, collected_waste,
                   snapshots, lastSnapshot, regenerated, calls, returned>>

(* --------------------------- specification ----------------------------- *)
Next ==
    \/ StepStop
    \/ StepRun
    \/ CollectionAgentStep
    \/ SortingAgentStep
    \/ RecyclingAgentStep
    \/ StepFinish

Spec == Init /\ [][Next]_vars

(* ----------------------------- long runs ------------------------------- *)
\* The draws SpecDrain follows in a long run while the pool is above
\* DrainThreshold: the least
\* regeneration, the agents in the order of their ids, and the largest amount
\* in every transfer.
LongRun == max_steps > MaxSteps

FastRun ==
    (LongRun /\ total_waste > DrainThreshold) =>
        /\ regenerated' = regenerated + MinNewWaste
        /\ queue' = [i \in 1 .. Cardinality(Agents) |-> i]

FastCollect ==
    (LongRun /\ startWaste > DrainThreshold) =>
        total_waste' = total_waste - Min(MaxDraw, total_waste)

FastSort ==
    (LongRun /\ startWaste > DrainThreshold) =>
        \A a \in Collectors :
            collected_waste'[a] = collected_waste[a] - Min(MaxDraw, collected_waste[a])

FastRecycle ==
    (LongRun /\ startWaste > DrainThreshold) =>
        \A a \in Sorters :
            sorted_waste'[a] = sorted_waste[a] - Min(MaxDraw, sorted_waste[a])

NextDrain ==
    \/ StepStop
    \/ StepRun /\ FastRun
    \/ CollectionAgentStep /\ FastCollect
    \/ SortingAgentStep /\ FastSort
    \/ RecyclingAgentStep /\ FastRecycle
    \/ StepFinish

SpecDrain == (Init \/ InitDrain) /\ [][NextDrain]_vars

(* --------------------------- larger grids ------------------------------ *)
InitGrid ==
    /\ \E g \in MoveGrids : width = g[1] /\ height = g[2]
    /\ \E f \in MoveFleets :
          num_collectors = f[1] /\ num_sorters = f[2] /\ num_recyclers = f[3]
    /\ max_steps \in 0 .. MaxSteps
    /\ Constructed

SpecGrid == InitGrid /\ [][Next]_vars

(* ------------------------------ fan-in --------------------------------- *)
\* Every agent placed on cell (0, 0) of the grid with a neighbour.
InitFanIn ==
    /\ width = 2 /\ height = 1
    /\ \E f \in FanInRuns :
          /\ num_collectors = f[1] /\ num_sorters = f[2] /\ num_recyclers = f[3]
          /\ max_steps = f[4]
    /\ Constructed
    /\ \A a \in Agents : pos[a] = <<0, 0>>

SpecFanIn == InitFanIn /\ [][Next]_vars

(* ------------------------------ claims --------------------------------- *)
\* Sums of the three kinds of counters.
Collected == SumOver(collected_waste, Collectors)

Sorted == SumOver(sorted_waste, Sorters)

Recycled == SumOver(recycled_waste, Recyclers)

\* The agents activated so far in the running model step.
Activated == Agents \ Range(queue)

\* The simulation's counters.
counters == <<total_waste, current_step, collected_waste, sorted_waste, recycled_waste>>

\* C1: in every reachable state, the states between two activations of one model
\* step included, total_waste >= 0 and every collected_waste, sorted_waste and
\* recycled_waste is >= 0.
C1_NonNegative ==
    /\ total_waste >= 0
    /\ \A a \in Collectors : collected_waste[a] >= 0
    /\ \A a \in Sorters : sorted_waste[a] >= 0
    /\ \A a \in Recyclers : recycled_waste[a] >= 0

\* C1's case: between two activations of one model step, a Collector that has
\* collected has been emptied by a Sorter, and a Recycler is still to come.
C1_Witness ==
    /\ pc = "schedule"
    /\ queue # << >>
    /\ \E c \in Collectors \cap Activated : collected_waste[c] = 0
    /\ \E s \in Sorters \cap Activated : sorted_waste[s] > 0

\* C2: the counters and the pool together never exceed the 100 of the
\* constructor plus all the regeneration draws made so far.
C2_PipelineBound ==
    Collected + Sorted + Recycled + total_waste <= InitialWaste + regenerated

\* C2's case: waste has been regenerated and has gone through the whole pipeline.
C2_Witness ==
    /\ regenerated > 0
    /\ Collected > 0
    /\ Recycled > 0

C4_StoppedIsPermanent ==
    [][ ~running =>
            /\ running' = FALSE
            /\ pc' = "idle"
            /\ regenerated' = regenerated
            /\ counters' = counters ]_vars

\* C4's case: waste has moved, the model has been stopped, and step() has been
\* called again on the stopped model.
C4_Witness ==
    /\ ~running
    /\ returned - current_step >= 2
    /\ Collected + Sorted + Recycled > 0

\* C5: step() on a stopped model leaves the whole model state as it is, the log
\* included.
C5_StoppedStepIsNoOp ==
    [][ (pc = "idle" /\ ~running) =>
            UNCHANGED <<running, total_waste, current_step, collected_waste,
                        sorted_waste, recycled_waste, pos, snapshots, logger>> ]_vars

\* C6: a step() call that begins with the stop condition stops the model and does
\* nothing else (no regeneration, no activation, no metrics, no current_step + 1);
\* a call that begins without it leaves the model running and ends with
\* current_step one higher.
C6_StepEffect ==
    [][ /\ (pc = "idle" /\ StopCondition) =>
              /\ running' = FALSE
              /\ pc' = "idle"
              /\ regenerated' = regenerated
              /\ snapshots' = snapshots
              /\ UNCHANGED <<counters, pos>>
        /\ (pc = "idle" /\ ~StopCondition) =>
              /\ running' = TRUE
              /\ pc' = "schedule"
              /\ current_step' = current_step
        /\ (pc = "schedule" /\ pc' = "schedule") =>
              /\ running' = TRUE
              /\ current_step' = current_step
        /\ (pc = "schedule" /\ pc' = "idle") =>
              /\ running' = TRUE
              /\ current_step' = current_step + 1 ]_vars

\* C7: a model step that begins with total_waste <= 5 adds nothing to total_waste;
\* one that begins with total_waste > 5 adds exactly one amount in 5..10, before
\* any agent is activated; while the agents are activated nothing is added, and
\* only a Collector's activation lowers total_waste.
C7_RegenerationGate ==
    [][ /\ (pc = "idle" /\ pc' = "schedule" /\ total_waste <= 5) =>
              /\ total_waste' = total_waste
              /\ regenerated' = regenerated
        /\ (pc = "idle" /\ pc' = "schedule" /\ total_waste > 5) =>
              /\ total_waste' - total_waste \in 5..10
              /\ regenerated' - regenerated = total_waste' - total_waste
              /\ Activated' = {}
        /\ pc = "schedule" =>
              /\ regenerated' = regenerated
              /\ total_waste' <= total_waste
              /\ total_waste' < total_waste =>
                    (queue # << >> /\ Head(queue) \in Collectors) ]_vars

\* C7's case: a model step began with 1..5 units in the pool, nothing was
\* regenerated, and a Collector has lowered the pool.
C7_Witness ==
    /\ pc = "schedule"
    /\ startWaste >= 1
    /\ startWaste <= 5
    /\ total_waste < startWaste
    /\ regenerated > 0

\* C8: when a Sorter is activated, every Collector holding 1..5 units is left
\* with exactly 0, and the Sorter's sorted_waste rises by the sum of what the
\* activation removed from the Collectors.
C8_SorterDrainsSmallStock ==
    [][ (pc = "schedule" /\ queue # << >> /\ Head(queue) \in Sorters) =>
            /\ \A c \in Collectors :
                  (collected_waste[c] >= 1 /\ collected_waste[c] <= 5)
                      => collected_waste'[c] = 0
            /\ sorted_waste'[Head(queue)] - sorted_waste[Head(queue)] =
                  SumOver([c \in Collectors |->
                              collected_waste[c] - collected_waste'[c]], Collectors)
            /\ \A t \in Sorters \ {Head(queue)} :
                  sorted_waste'[t] = sorted_waste[t] ]_vars

\* C8's case: in the first model step two Collectors each collected 1..5 units
\* and the Sorter, activated after both, emptied both.
C8_Witness ==
    /\ pc = "schedule"
    /\ current_step = 0
    /\ num_collectors = 2
    /\ \A c \in Collectors : c \in Activated /\ collected_waste[c] = 0
    /\ \E s \in Sorters \cap Activated : sorted_waste[s] >= 2
    /\ total_waste < InitialWaste + regenerated

\* C9: a model step that begins with 1..5 units in the pool and at least one
\* Collector regenerates nothing, its first activated Collector takes the whole
\* pool, the pool is 0 when the step ends, and the next step() call stops the
\* model and changes no counter.
C9_SmallPoolDrain ==
    [][ /\ (pc = "idle" /\ pc' = "schedule" /\ num_collectors >= 1
             /\ total_waste >= 1 /\ total_waste <= 5) =>
              /\ regenerated' = regenerated
              /\ total_waste' = total_waste
        /\ (pc = "schedule" /\ startWaste >= 1 /\ startWaste <= 5
             /\ queue # << >> /\ Head(queue) \in Collectors
             /\ Collectors \cap Activated = {}) =>
              /\ collected_waste'[Head(queue)] =
                    collected_waste[Head(queue)] + startWaste
              /\ total_waste' = 0
        /\ (pc = "schedule" /\ startWaste >= 1 /\ startWaste <= 5
             /\ num_collectors >= 1 /\ pc' = "idle") =>
              /\ total_waste' = 0
              /\ current_step' = current_step + 1
        /\ (pc = "idle" /\ running /\ total_waste = 0) =>
              /\ running' = FALSE
              /\ pc' = "idle"
              /\ counters' = counters ]_vars

\* C9's case: the pool was drained to 0 before max_steps and the next step() call
\* has stopped the model.
C9_Witness ==
    /\ ~running
    /\ total_waste = 0
    /\ current_step < max_steps
    /\ returned = current_step + 1
    /\ Collected + Sorted + Recycled = InitialWaste + regenerated

\* C10: on a 1x1 grid the only cell has no neighbour, and every step() call made
\* on such a model has returned normally.
C10_DegenerateMove ==
    (width = 1 /\ height = 1) =>
        /\ \A p \in Cells : get_neighborhood(p) = {}
        /\ pc = "idle" => calls = returned

\* The agent whose step() the next action of the running schedule.step() runs.
Activating == IF pc = "schedule" /\ queue # << >> THEN {Head(queue)} ELSE {}

\* C11: a model step that runs puts every agent in the order of activation once,
\* each action of the schedule activates the next agent of that order and no
\* other, and the step ends only when every agent has been activated.
C11_EachAgentOnce ==
    [][ /\ (pc = "idle" /\ pc' = "schedule") =>
              /\ Range(queue') = Agents
              /\ Len(queue') = Cardinality(Agents)
        /\ (pc = "schedule" /\ pc' = "schedule") =>
              /\ queue # << >>
              /\ queue' = Tail(queue)
        /\ (pc = "schedule" /\ pc' = "idle") =>
              Activated \cup Activating = Agents ]_vars

\* C12: on a grid of two cells or more every agent is on an in-bounds cell, the
\* activated agent moves to an in-bounds cell that is 8-adjacent to its cell and
\* is not its cell, and no other agent moves.
C12_MovesInBounds ==
    [][ width * height >= 2 =>
          /\ \A a \in Agents :
                /\ pos[a][1] >= 0 /\ pos[a][1] < width
                /\ pos[a][2] >= 0 /\ pos[a][2] < height
                /\ pos'[a][1] >= 0 /\ pos'[a][1] < width
                /\ pos'[a][2] >= 0 /\ pos'[a][2] < height
          /\ \A a \in Agents \ Activating : pos'[a] = pos[a]
          /\ \A a \in Activating :
                /\ pos'[a] # pos[a]
                /\ pos'[a][1] - pos[a][1] \in {-1, 0, 1}
                /\ pos'[a][2] - pos[a][2] \in {-1, 0, 1} ]_vars

\* C12's case: on the 3x1 grid two agents have been activated and have moved, one
\* to the far end of the grid (from the middle cell, its only neighbour) and one
\* to the middle cell.
C12_Witness ==
    /\ pc = "schedule"
    /\ width = 3
    /\ \E a, b \in Activated : pos[a] = <<2, 0>> /\ pos[b] = <<1, 0>>

\* C13: no snapshot is recorded when a model step begins or between two
\* activations; a model step that runs ends, every agent activated, with exactly
\* one snapshot of the sums of the three kinds of counters and total_waste as
\* they are then, and recording it changes none of them.
C13_SnapshotPerStep ==
    [][ /\ (pc = "idle" /\ pc' = "schedule") => snapshots' = snapshots
        /\ (pc = "schedule" /\ pc' = "schedule") => snapshots' = snapshots
        /\ (pc = "schedule" /\ pc' = "idle") =>
              /\ queue = << >>
              /\ snapshots' = snapshots + 1
              /\ lastSnapshot' = <<Collected, Sorted, Recycled, total_waste>>
              /\ UNCHANGED <<total_waste, collected_waste, sorted_waste,
                             recycled_waste, pos, running>> ]_vars

\* C14: inside a model step a Collector's counter rises only at its own
\* activation and a Sorter's only at its own, and a Sorter (a Recycler) takes from
\* each Collector (Sorter) no more than that counter holds when it is activated:
\* what an agent collects in a model step is out of reach of the agents
\* activated before it. In the model step of the first step() call a Sorter
\* activated before every Collector, and a Recycler activated before every
\* Sorter, gains nothing.
C14_VisibilityByOrder ==
    [][ pc = "schedule" =>
          /\ \A c \in Collectors :
                collected_waste'[c] > collected_waste[c] => c \in Activating
          /\ \A t \in Sorters :
                sorted_waste'[t] > sorted_waste[t] => t \in Activating
          /\ \A t \in Activating \cap Sorters :
                /\ \A c \in Collectors :
                      collected_waste[c] - collected_waste'[c] \in 0 .. collected_waste[c]
                /\ sorted_waste'[t] - sorted_waste[t] = Collected - Collected'
                /\ (calls = 1 /\ Collectors \cap Activated = {}) =>
                      sorted_waste'[t] = sorted_waste[t]
          /\ \A r \in Activating \cap Recyclers :
                /\ \A t \in Sorters :
                      sorted_waste[t] - sorted_waste'[t] \in 0 .. sorted_waste[t]
                /\ recycled_waste'[r] - recycled_waste[r] = Sorted - Sorted'
                /\ (calls = 1 /\ Sorters \cap Activated = {}) =>
                      recycled_waste'[r] = recycled_waste[r] ]_vars

\* C14's case, both orders in the model step of the first step() call: the Sorter holds waste of a
\* Collector activated before it (that Collector is empty) and holds none of a
\* Collector activated after it (that Collector still holds what it collected).
C14_Witness ==
    /\ pc = "schedule"
    /\ queue = << >>
    /\ calls = 1
    /\ \E t \in Sorters : sorted_waste[t] > 0
    /\ \E c \in Collectors : collected_waste[c] = 0
    /\ \E c \in Collectors : collected_waste[c] > 0

\* C15: total_waste falls only when a Collector is activated and rises only by
\* the regeneration; collected_waste rises only at the Collector's own activation
\* and falls only when a Sorter is activated; sorted_waste rises only at the
\* Sorter's own activation and falls only when a Recycler is activated;
\* recycled_waste never falls.
C15_WriteOwnership ==
    [][ /\ total_waste' < total_waste => Activating \cap Collectors # {}
        /\ total_waste' > total_waste =>
              /\ pc = "idle" /\ pc' = "schedule"
              /\ total_waste' - total_waste = regenerated' - regenerated
        /\ \A c \in Collectors :
              /\ collected_waste'[c] > collected_waste[c] => c \in Activating
              /\ collected_waste'[c] < collected_waste[c] => Activating \cap Sorters # {}
        /\ \A t \in Sorters :
              /\ sorted_waste'[t] > sorted_waste[t] => t \in Activating
              /\ sorted_waste'[t] < sorted_waste[t] => Activating \cap Recyclers # {}
        /\ \A r \in Recyclers :
              /\ recycled_waste'[r] >= recycled_waste[r]
              /\ recycled_waste'[r] > recycled_waste[r] => r \in Activating ]_vars

\* C15's case: in one model step waste was regenerated, collected, sorted and
\* recycled, each stage emptied by the next.
C15_Witness ==
    /\ pc = "idle"
    /\ current_step = 1
    /\ regenerated > 0
    /\ total_waste < InitialWaste + regenerated
    /\ Collected = 0
    /\ Sorted = 0
    /\ Recycled > 0

\* C16: a Collector activated with total_waste = w transfers nothing when w = 0,
\* exactly w when 1 <= w <= 5 and between 1 and 5 when w > 5; its collected_waste
\* rises by exactly what total_waste falls, and no other counter changes.
C16_CollectorTransfer ==
    [][ \A c \in Activating \cap Collectors :
          LET w == total_waste
              collect == total_waste - total_waste'
          IN /\ collected_waste'[c] - collected_waste[c] = collect
             /\ w = 0 => collect = 0
             /\ (w >= 1 /\ w <= 5) => collect = w
             /\ w > 5 => (collect >= 1 /\ collect <= 5)
             /\ \A d \in Collectors \ {c} : collected_waste'[d] = collected_waste[d]
             /\ UNCHANGED <<sorted_waste, recycled_waste>> ]_vars

\* C16's case: a model step began with 1..5 in the pool, and both Collectors have
\* been activated: one with the small pool, the other with the pool at 0.
C16_Witness ==
    /\ pc = "schedule"
    /\ num_collectors = 2
    /\ Collectors \subseteq Activated
    /\ startWaste >= 1
    /\ startWaste <= 5
    /\ total_waste = 0

\* C17: a Recycler's activation takes from every Sorter that holds waste, the
\* whole of it when it holds 1..5 and between 1 and 5 when it holds more, leaves
\* the empty Sorters, the Collectors and the pool as they are, and adds to the
\* Recycler's recycled_waste exactly what it removed from the Sorters.
C17_RecyclerFanIn ==
    [][ \A r \in Activating \cap Recyclers :
          /\ \A t \in Sorters :
                LET s == sorted_waste[t]
                    recycled == sorted_waste[t] - sorted_waste'[t]
                IN /\ s = 0 => recycled = 0
                   /\ (s >= 1 /\ s <= 5) => recycled = s
                   /\ s > 5 => (recycled >= 1 /\ recycled <= 5)
          /\ recycled_waste'[r] - recycled_waste[r] = Sorted - Sorted'
          /\ \A q \in Recyclers \ {r} : recycled_waste'[q] = recycled_waste[q]
          /\ UNCHANGED <<collected_waste, total_waste>> ]_vars

\* C17's case: in the model step of the first step() call the Recycler has taken
\* from two Sorters at once (more than one transfer can give) and emptied both.
C17_Witness ==
    /\ pc = "schedule"
    /\ calls = 1
    /\ num_sorters = 2
    /\ Sorted = 0
    /\ \E r \in Recyclers \cap Activated : recycled_waste[r] > MaxDraw

\* C18: in every reachable state, between two activations included, the pool and
\* all the counters add up to exactly the 100 of the constructor plus the
\* regeneration draws made so far.
C18_Conservation ==
    total_waste + Collected + Sorted + Recycled = InitialWaste + regenerated

\* C18's case: between two activations of a model step that began with a small
\* pool, after many regenerations, most of the waste is with the Collectors.
C18_Witness ==
    /\ pc = "schedule"
    /\ queue # << >>
    /\ Activated # {}
    /\ regenerated > 0
    /\ total_waste <= 5
    /\ Collected > InitialWaste

\* C19: current_step never exceeds max_steps and equals the number of snapshots
\* recorded and, between two step() calls, the number of model steps that ran
\* (calls that did not take the stop branch); at most max_steps model steps run.
C19_StepCount ==
    LET stopped == returned - snapshots     \* calls that took the stop branch
        ran == calls - stopped              \* calls that ran a model step
    IN /\ current_step <= max_steps
       /\ current_step = snapshots
       /\ ran <= max_steps
       /\ pc = "idle" => current_step = ran

\* C20: with at most one Collector total_waste is never below 100 and never
\* below its value at the start of the running model step, and the model is
\* stopped only with current_step at max_steps.
C20_OneCollectorNeverDrains ==
    num_collectors <= 1 =>
        /\ total_waste >= InitialWaste
        /\ pc = "schedule" => total_waste >= startWaste
        /\ ~running => current_step >= max_steps

\* C20's case: a long run with one Collector that took 5 against a regeneration
\* of 5 in every model step has ended, by max_steps, with the pool at 100.
C20_Witness ==
    /\ num_collectors = 1
    /\ max_steps > MaxSteps
    /\ ~running
    /\ current_step = max_steps
    /\ total_waste = InitialWaste
    /\ Recycled > 0

====
